---- MODULE Spec2Model ----
(***************************************************************************)
(* The root System loop of bastion (bastion/src/system.rs).                *)
(*                                                                         *)
(* The System owns a Broadcast (its inbound queue and its child edges), an *)
(* intake channel of Supervisors, the map of running supervisor handles    *)
(* and the dead-set.  System::run is modelled position by position: the    *)
(* poll of the broadcast queue, the poll of the intake channel, and the    *)
(* end of the turn.  Broadcast, Supervisor and the Bastion facade live in  *)
(* other modules of the crate; what the loop consumes from them follows    *)
(* the specification (sections 4.3, 4.4 and 6).                            *)
(***************************************************************************)
EXTENDS Naturals, Sequences, FiniteSets, TLC

\* ------------------------------------------------------------------ bounds
NumSups == 2          \* supervisors the application creates
MaxSends == 2         \* messages ever sent to the root's broadcast queue
MaxRestarts == 1      \* max_restarts of the restart budget (spec 4.7/4.8)

SupIds == 1..NumSups
NoId == 0

\* ------------------------------------------------------------- BastionMessage
PoisonPill == [type |-> "PoisonPill", id |-> NoId]
Dead(i) == [type |-> "Dead", id |-> i]
Faulted(i) == [type |-> "Faulted", id |-> i]
Message == [type |-> "Message", id |-> NoId]
StopMsg == [type |-> "Stop", id |-> NoId]

Reports == {Dead(i) : i \in SupIds} \cup {Faulted(i) : i \in SupIds}

VARIABLES
    pc,            \* position of System::run
    ready,         \* the local `ready` of the current turn
    bcastQ,        \* self.bcast: inbound queue
    bcastOpen,     \* self.bcast: the inbound channel still has senders
    bcastChildren, \* self.bcast: ids of the registered child edges
    recverQ,       \* self.recver: supervisors submitted and not yet taken
    recverOpen,    \* self.recver: the sender returned by start() is alive
    supervisors,   \* self.supervisors: id -> handle (the incarnation joined)
    dead,          \* self.dead
    supState,      \* each Supervisor: created, submitted, running, terminated
    launches,      \* how many times each supervisor's task was spawned
    started,       \* per supervisor, the launch steps in the order taken
    childInbox,    \* what send_children delivered to each child
    sent,          \* messages sent to the root so far (bounded by MaxSends)
    stopCalled,    \* Bastion::stop() has been called
    last,          \* the event the loop handled last
    turn,          \* the polls of the current turn, in order
    reported,      \* ids whose Dead or Faulted the loop has handled
    faultsSeen,    \* Faulted handled per launched supervisor whose task had
                   \* terminated and that was not in the dead-set
    deadAgain      \* ids whose Dead was handled with the id already in the
                   \* dead-set and its edge already gone

\* ActorPath (routing/path.rs): two paths under construction and their
\* canonical strings
VARIABLES
    paths,         \* slot -> ActorPath
    strs           \* slot -> paths[slot].to_string()

pathVars == <<paths, strs>>

\* The hello-world example (examples/loltest.rs): one worker, a number of
\* askers, and the one-shot reply channel of each ask
VARIABLES
    workerKind,    \* the recipe given to with_exec
    workerPc,      \* position of the worker's exec future
    workerMail,    \* the worker's mailbox: envelopes not yet received
    workerCur,     \* the envelope ctx.recv() returned
    canProcess,    \* my_state.can_process_messages
    toProcess,     \* my_state.messages_to_process
    processed,     \* the messages process_message was called with
    chan,          \* per ask, the state of its one-shot reply channel
    fired,         \* per ask, how many values went through its reply handle
    askerPc,       \* per ask, the position of the asker
    handled        \* asks whose envelope the worker is done with

askVars == <<workerKind, workerPc, workerMail, workerCur, canProcess,
             toProcess, processed, chan, fired, askerPc, handled>>

\* The dispatcher example (examples/round_robin_dispatcher.rs): a caller and
\* the group named "Rounder"
VARIABLES
    registry,      \* dispatcher name -> the dispatcher registered under it
    callerNext,    \* index in data_to_send of the caller's next broadcast
    callerPc,      \* position of the caller's exec future
    delivered,     \* per member, the payloads put in its mailbox, in order
    printed,       \* per member, the payloads it has received and printed
    stopped        \* Bastion::stop() has been called by the caller

rrVars == <<registry, callerNext, callerPc, delivered, printed, stopped>>

libVars == <<pathVars, askVars, rrVars>>

vars == <<pc, ready, bcastQ, bcastOpen, bcastChildren, recverQ, recverOpen,
          supervisors, dead, supState, launches, started, childInbox, sent,
          stopCalled, last, turn, reported, faultsSeen, deadAgain, libVars>>

rootVars == <<pc, ready, supervisors, dead, last, turn, reported, faultsSeen,
              deadAgain>>

NoEvent == [src |-> "none", type |-> "none", id |-> NoId]
Event(s, t, i) == [src |-> s, type |-> t, id |-> i]


\* ------------------------------------------------ ActorPath (routing/path.rs)
\* A String is the sequence of its characters.
chScheme == <<"b", "a", "s", "t", "i", "o", "n", ":", "/", "/">>
chNode == <<"n", "o", "d", "e">>
chTest == <<"t", "e", "s", "t">>
chTestUserA == <<"t", "e", "s", "t", "/", "u", "s", "e", "r", "/", "a">>
chOne == <<"1">>
chProcessing1 == <<"p", "r", "o", "c", "e", "s", "s", "i", "n", "g", "/", "1">>
chAUser1 == <<"a", "/", "u", "s", "e", "r", "/", "1">>
\* what Uuid::new_v4().to_string() may return (shortened)
Uuids == {<<"4", "a", "-", "0", "1">>, <<"4", "a", "-", "0", "2">>}

\* std::net::SocketAddr (V4) and its Display: "a.b.c.d:port"
Loopback8080 == [ip |-> <<127, 0, 0, 1>>, port |-> 8080]
SocketAddrs == {Loopback8080}

DigitChars == <<"0", "1", "2", "3", "4", "5", "6", "7", "8", "9">>

RECURSIVE Decimal(_)
Decimal(n) ==
    IF n < 10 THEN <<DigitChars[n + 1]>>
    ELSE Decimal(n \div 10) \o <<DigitChars[(n % 10) + 1]>>

SocketAddrToString(a) ==
    Decimal(a.ip[1]) \o <<".">> \o Decimal(a.ip[2]) \o <<".">>
        \o Decimal(a.ip[3]) \o <<".">> \o Decimal(a.ip[4])
        \o <<":">> \o Decimal(a.port)

\* enum ActorNodeType
Local == [kind |-> "Local"]
Remote(a) == [kind |-> "Remote", addr |-> a]
ActorNodeTypes == {Local} \cup {Remote(a) : a \in SocketAddrs}

\* enum ActorScope
ActorScopes == {"User", "System", "DeadLetter", "Temporary"}

\* the &str arguments the builder is called with
NodeNames == {chNode, chTest, chTestUserA,
              chTest \o <<"@">> \o SocketAddrToString(Loopback8080)}
ActorIds == Uuids \cup {chOne, chProcessing1, chAUser1}

\* ActorPath::new
ActorPathNew(node_name, node_type, scope, id) ==
    [node_name |-> node_name, node_type |-> node_type, scope |-> scope,
     id |-> id]

\* ActorPath::node_name
node_name(self, n) == [self EXCEPT !.node_name = n]

\* ActorPath::node_type
node_type(self, t) == [self EXCEPT !.node_type = t]

\* scope() that also puts the node type back to Local
scope_ResetsNodeType(self, sc) ==
    [self EXCEPT !.scope = sc, !.node_type = Local]

\* ActorPath::scope
scope(self, sc) == [self EXCEPT !.scope = sc]

\* ActorPath::name
name(self, id) == [self EXCEPT !.id = id]

\* Default for ActorPath; unique_id is what Uuid::new_v4().to_string() gave
ActorPathDefault(unique_id) == ActorPathNew(chNode, Local, "System", unique_id)

\* ToString for ActorNodeType
NodeTypeToString(t) ==
    IF t.kind = "Local" THEN <<>>
    ELSE <<"@">> \o SocketAddrToString(t.addr)

\* as_str with the DeadLetter tag spelled without its underscore
as_str_NoUnderscore(sc) ==
    CASE sc = "User" -> <<"u", "s", "e", "r">>
      [] sc = "System" -> <<"s", "y", "s", "t", "e", "m">>
      [] sc = "DeadLetter" -> <<"d", "e", "a", "d", "l", "e", "t", "t", "e", "r">>
      [] sc = "Temporary" -> <<"t", "e", "m", "p", "o", "r", "a", "r", "y">>

\* ActorScope::as_str
as_str(sc) ==
    CASE sc = "User" -> <<"u", "s", "e", "r">>
      [] sc = "System" -> <<"s", "y", "s", "t", "e", "m">>
      [] sc = "DeadLetter" -> <<"d", "e", "a", "d", "_", "l", "e", "t", "t", "e", "r">>
      [] sc = "Temporary" -> <<"t", "e", "m", "p", "o", "r", "a", "r", "y">>

\* to_string without the node type: "bastion://{}/{}/{}"
to_string_NoNodeType(self) ==
    chScheme \o self.node_name
        \o <<"/">> \o as_str(self.scope) \o <<"/">> \o self.id

\* ToString for ActorPath: format!("bastion://{}{}/{}/{}", ...)
to_string(self) ==
    chScheme \o self.node_name \o NodeTypeToString(self.node_type)
        \o <<"/">> \o as_str(self.scope) \o <<"/">> \o self.id

Slots == {"a", "b"}

PathInit ==
    /\ paths = [k \in Slots |-> ActorPathDefault(<<"4", "a", "-", "0", "1">>)]
    /\ strs = [k \in Slots |-> to_string(ActorPathDefault(<<"4", "a", "-", "0", "1">>))]

\* ------------------------------------------------------------ ask and reply
NumAsks == 3
AskIds == 1..NumAsks

msgHello == "hello, world!"
msgSignal == "signal that allows me to process messages"
AskBodies == {msgHello, msgSignal}

NoEnvelope == [body |-> "", reply |-> 0]
Envelope(b, a) == [body |-> b, reply |-> a]

\* the recipes: the example's own closure, and a child that answers with the
\* payload it received
WorkerKinds == {"loltest", "echo"}

\* dropping a reply handle: a channel nothing was sent on is canceled
DropHandle(c, a) ==
    IF a \in DOMAIN c /\ c[a] = "open" THEN [c EXCEPT ![a] = "canceled"] ELSE c

\* sending on a reply handle: the value is accepted on an open channel only
SendReply(c, a) ==
    IF a \in DOMAIN c /\ c[a] = "open" THEN [c EXCEPT ![a] = "sent"] ELSE c

AskInit ==
    /\ workerKind = "none"
    /\ workerPc = "none"
    /\ workerMail = <<>>
    /\ workerCur = NoEnvelope
    /\ canProcess = FALSE
    /\ toProcess = <<>>
    /\ processed = <<>>
    /\ chan = [a \in AskIds |-> "none"]
    /\ fired = [a \in AskIds |-> 0]
    /\ askerPc = [a \in AskIds |-> "start"]
    /\ handled = {}

\* ------------------------------------------------------------- dispatchers
\* with_redundancy(5)
Redundancy == 5
Members == 1..Redundancy

\* data_to_send
DataToSend == <<"data_1", "data_2", "data_3", "data_4", "data_5">>

\* the dispatcher the example gives the group: DispatcherType::Named
RounderName == "Rounder"
RounderType == "Named"

DispatcherTypes == {"Named", "RoundRobin"}

Dispatcher(type, members) == [type |-> type, members |-> members, counter |-> 0]

\* the members a dispatch reaches: the next one by the counter for RoundRobin,
\* every member otherwise
DispatchTargets(d) ==
    IF d.type = "RoundRobin"
    THEN IF d.members = <<>> THEN {}
         ELSE {d.members[(d.counter % Len(d.members)) + 1]}
    ELSE {d.members[k] : k \in 1..Len(d.members)}

\* the counter advances once per accepted message
Dispatched(d) == [d EXCEPT !.counter = @ + 1]

RoundInit ==
    /\ registry = <<>>
    /\ callerNext = 1
    /\ callerPc = "created"
    /\ delivered = [m \in Members |-> <<>>]
    /\ printed = [m \in Members |-> <<>>]
    /\ stopped = FALSE

\* System::start
Init ==
    /\ pc = "poll_bcast"
    /\ ready = FALSE
    /\ bcastQ = <<>>
    /\ bcastOpen = TRUE
    /\ bcastChildren = {}
    /\ recverQ = <<>>
    /\ recverOpen = TRUE
    /\ supervisors = <<>>
    /\ dead = {}
    /\ supState = [i \in SupIds |-> "created"]
    /\ launches = [i \in SupIds |-> 0]
    /\ started = [i \in SupIds |-> <<>>]
    /\ childInbox = [i \in SupIds |-> <<>>]
    /\ sent = 0
    /\ stopCalled = FALSE
    /\ last = NoEvent
    /\ turn = <<>>
    /\ reported = {}
    /\ faultsSeen = [i \in SupIds |-> 0]
    /\ deadAgain = {}
    /\ PathInit
    /\ AskInit
    /\ RoundInit

Alive == pc # "panicked"

\* ---------------------------------------------------------------- helpers
\* FxHashMap::remove
MapRemove(m, k) == [x \in (DOMAIN m) \ {k} |-> m[x]]

\* Broadcast::remove_child
remove_child(children, id) == children \ {id}

\* Broadcast::send_children
send_children(children, inbox, msg) ==
    [c \in SupIds |-> IF c \in children THEN Append(inbox[c], msg) ELSE inbox[c]]

\* launch_supervisor that spawns the task before launching the children
launch_supervisor_SpawnFirst(s) ==
    /\ started' = [started EXCEPT ![s] = @ \o <<"spawn", "launch_children">>]
    /\ supState' = [supState EXCEPT ![s] = "running"]
    /\ launches' = [launches EXCEPT ![s] = @ + 1]

\* launch_supervisor: the children are launched, then the supervisor's task is
\* spawned; the JoinHandle that spawn returns is dropped.
launch_supervisor(s) ==
    /\ started' = [started EXCEPT ![s] = @ \o <<"launch_children", "spawn">>]
    /\ supState' = [supState EXCEPT ![s] = "running"]
    /\ launches' = [launches EXCEPT ![s] = @ + 1]


\* ------------------------------------------------- the application's side
\* Bastion::supervisor(builder): a Supervisor is created as a child of the
\* root's broadcast node and submitted on the intake channel.
Submit(s) ==
    /\ Alive /\ recverOpen
    /\ supState[s] = "created"
    /\ supState' = [supState EXCEPT ![s] = "submitted"]
    /\ bcastChildren' = bcastChildren \cup {s}
    /\ recverQ' = Append(recverQ, s)
    /\ UNCHANGED <<bcastQ, bcastOpen, recverOpen, launches, started, childInbox,
                   sent, stopCalled>>
    /\ UNCHANGED rootVars
    /\ UNCHANGED libVars

\* A running supervisor leaves: it reports Dead or Faulted for itself to
\* its parent and its task terminates, returning the Supervisor.
SupReport(s, kind) ==
    /\ Alive /\ bcastOpen /\ sent < MaxSends
    /\ supState[s] = "running"
    /\ supState' = [supState EXCEPT ![s] = "terminated"]
    /\ bcastQ' = Append(bcastQ, [type |-> kind, id |-> s])
    /\ sent' = sent + 1
    /\ UNCHANGED <<bcastOpen, bcastChildren, recverQ, recverOpen, launches,
                   started, childInbox, stopCalled>>
    /\ UNCHANGED rootVars
    /\ UNCHANGED libVars

\* Any holder of the root's broadcast sender enqueues a message: a user
\* broadcast, or a report that is a duplicate or arrives late.
SendBcast(msg) ==
    /\ Alive /\ bcastOpen /\ sent < MaxSends
    /\ bcastQ' = Append(bcastQ, msg)
    /\ sent' = sent + 1
    /\ UNCHANGED <<bcastOpen, bcastChildren, recverQ, recverOpen, supState,
                   launches, started, childInbox, stopCalled>>
    /\ UNCHANGED rootVars
    /\ UNCHANGED libVars

\* Bastion::stop(): the first call asks the root to shut down.
Stop ==
    /\ Alive /\ bcastOpen /\ sent < MaxSends
    /\ ~stopCalled
    /\ stopCalled' = TRUE
    /\ bcastQ' = Append(bcastQ, PoisonPill)
    /\ sent' = sent + 1
    /\ UNCHANGED <<bcastOpen, bcastChildren, recverQ, recverOpen, supState,
                   launches, started, childInbox>>
    /\ UNCHANGED rootVars
    /\ UNCHANGED libVars

\* The last sender of the intake channel (returned by System::start) is dropped.
CloseIntake ==
    /\ Alive /\ recverOpen
    /\ recverOpen' = FALSE
    /\ UNCHANGED <<bcastQ, bcastOpen, bcastChildren, recverQ, supState, launches,
                   started, childInbox, sent, stopCalled>>
    /\ UNCHANGED rootVars
    /\ UNCHANGED libVars

\* The last sender of the root's broadcast queue is dropped.
CloseBcast ==
    /\ Alive /\ bcastOpen
    /\ bcastOpen' = FALSE
    /\ UNCHANGED <<bcastQ, bcastChildren, recverQ, recverOpen, supState, launches,
                   started, childInbox, sent, stopCalled>>
    /\ UNCHANGED rootVars
    /\ UNCHANGED libVars

\* ------------------------------------------------------------ System::run
\* poll!(self.bcast.next()) is Ready(Some(msg)) with msg at the head
BcastHead(t) ==
    /\ pc = "poll_bcast"
    /\ bcastQ # <<>>
    /\ Head(bcastQ).type = t

\* BcastTaken that goes on to the end of the turn (a `continue` after a
\* handled message), leaving the intake channel unpolled
BcastTaken_SkipsIntake(t, i) ==
    /\ bcastQ' = Tail(bcastQ)
    /\ ready' = TRUE
    /\ pc' = "end_turn"
    /\ last' = Event("bcast", t, i)
    /\ turn' = Append(turn, "bcast:ready")

\* what every Ready(Some(msg)) arm of the first poll does around its handler
BcastTaken(t, i) ==
    /\ bcastQ' = Tail(bcastQ)
    /\ ready' = TRUE
    /\ pc' = "poll_recver"
    /\ last' = Event("bcast", t, i)
    /\ turn' = Append(turn, "bcast:ready")

\* BastionMessage::PoisonPill => unimplemented!()
BcastPoisonPill ==
    /\ BcastHead("PoisonPill")
    /\ bcastQ' = Tail(bcastQ)
    /\ ready' = TRUE
    /\ pc' = "panicked"
    /\ last' = Event("bcast", "PoisonPill", NoId)
    /\ turn' = Append(turn, "bcast:ready")
    /\ UNCHANGED <<bcastOpen, bcastChildren, recverQ, recverOpen, supervisors,
                   dead, supState, launches, started, childInbox, sent,
                   stopCalled, reported, faultsSeen>>
    /\ UNCHANGED <<deadAgain, libVars>>

\* BcastDead without `self.dead.insert(id)`
BcastDead_NoInsert ==
    /\ BcastHead("Dead")
    /\ LET id == Head(bcastQ).id IN
        /\ supervisors' = MapRemove(supervisors, id)
        /\ bcastChildren' = remove_child(bcastChildren, id)
        /\ reported' = reported \cup {id}
        /\ deadAgain' = IF id \in dead /\ id \notin bcastChildren
                        THEN deadAgain \cup {id}
                        ELSE deadAgain
        /\ BcastTaken("Dead", id)
    /\ UNCHANGED <<bcastOpen, recverQ, recverOpen, supState, launches, started,
                   childInbox, sent, stopCalled, faultsSeen, dead>>
    /\ UNCHANGED libVars

\* BcastDead that takes the edge for granted: the task panics when
\* remove_child finds none
BcastDead_ExpectsEdge ==
    /\ BcastHead("Dead")
    /\ LET id == Head(bcastQ).id IN
        /\ supervisors' = MapRemove(supervisors, id)
        /\ bcastChildren' = remove_child(bcastChildren, id)
        /\ dead' = dead \cup {id}
        /\ reported' = reported \cup {id}
        /\ deadAgain' = IF id \in dead /\ id \notin bcastChildren
                        THEN deadAgain \cup {id}
                        ELSE deadAgain
        /\ bcastQ' = Tail(bcastQ)
        /\ ready' = TRUE
        /\ pc' = IF id \in bcastChildren THEN "poll_recver" ELSE "panicked"
        /\ last' = Event("bcast", "Dead", id)
        /\ turn' = Append(turn, "bcast:ready")
    /\ UNCHANGED <<bcastOpen, recverQ, recverOpen, supState, launches, started,
                   childInbox, sent, stopCalled, faultsSeen>>
    /\ UNCHANGED libVars

\* BastionMessage::Dead { id }
BcastDead ==
    /\ BcastHead("Dead")
    /\ LET id == Head(bcastQ).id IN
        /\ supervisors' = MapRemove(supervisors, id)
        /\ bcastChildren' = remove_child(bcastChildren, id)
        /\ dead' = dead \cup {id}
        /\ reported' = reported \cup {id}
        /\ deadAgain' = IF id \in dead /\ id \notin bcastChildren
                        THEN deadAgain \cup {id}
                        ELSE deadAgain
        /\ BcastTaken("Dead", id)
    /\ UNCHANGED <<bcastOpen, recverQ, recverOpen, supState, launches, started,
                   childInbox, sent, stopCalled, faultsSeen>>
    /\ UNCHANGED libVars

\* BcastFaulted without the `if let Some(..) = self.supervisors.remove(&id)`
\* test: whatever supervisor the report names is launched again.
BcastFaulted_Unconditional ==
    /\ BcastHead("Faulted")
    /\ LET id == Head(bcastQ).id IN
        /\ supState[id] = "terminated"
        /\ supervisors' = MapRemove(supervisors, id)
        /\ launch_supervisor(id)
        /\ reported' = reported \cup {id}
        /\ faultsSeen' = IF launches[id] > 0 /\ id \notin dead
                            /\ supState[id] = "terminated"
                         THEN [faultsSeen EXCEPT ![id] = @ + 1]
                         ELSE faultsSeen
        /\ BcastTaken("Faulted", id)
    /\ UNCHANGED <<bcastOpen, bcastChildren, recverQ, recverOpen, dead,
                   childInbox, sent, stopCalled>>
    /\ UNCHANGED <<deadAgain, libVars>>

\* BcastFaulted that puts an id it does not find in the map in the dead-set
BcastFaulted_MarksDead ==
    /\ BcastHead("Faulted")
    /\ LET id == Head(bcastQ).id IN
        /\ IF id \in DOMAIN supervisors
           THEN /\ supState[id] = "terminated"
                /\ supervisors' = MapRemove(supervisors, id)
                /\ launch_supervisor(id)
           ELSE /\ UNCHANGED <<supervisors, supState, launches, started>>
        /\ dead' = IF id \in DOMAIN supervisors THEN dead ELSE dead \cup {id}
        /\ reported' = reported \cup {id}
        /\ faultsSeen' = IF launches[id] > 0 /\ id \notin dead
                            /\ supState[id] = "terminated"
                         THEN [faultsSeen EXCEPT ![id] = @ + 1]
                         ELSE faultsSeen
        /\ BcastTaken("Faulted", id)
    /\ UNCHANGED <<bcastOpen, bcastChildren, recverQ, recverOpen,
                   childInbox, sent, stopCalled>>
    /\ UNCHANGED <<deadAgain, libVars>>

\* BastionMessage::Faulted { id }: the handle is awaited inline, so with a
\* handle in the map the arm completes only once that task has terminated.
\* (The wait is the guard of the THEN branch: while it lasts the loop takes
\* no other step.)
BcastFaulted ==
    /\ BcastHead("Faulted")
    /\ LET id == Head(bcastQ).id IN
        /\ IF id \in DOMAIN supervisors
           THEN /\ supState[id] = "terminated"
                /\ supervisors' = MapRemove(supervisors, id)
                /\ launch_supervisor(id)
           ELSE UNCHANGED <<supervisors, supState, launches, started>>
        /\ reported' = reported \cup {id}
        /\ faultsSeen' = IF launches[id] > 0 /\ id \notin dead
                            /\ supState[id] = "terminated"
                         THEN [faultsSeen EXCEPT ![id] = @ + 1]
                         ELSE faultsSeen
        /\ BcastTaken("Faulted", id)
    /\ UNCHANGED <<bcastOpen, bcastChildren, recverQ, recverOpen, dead,
                   childInbox, sent, stopCalled>>
    /\ UNCHANGED <<deadAgain, libVars>>

\* BcastMessage that forwards to the first registered child only
BcastMessage_FirstChildOnly ==
    /\ BcastHead("Message")
    /\ childInbox' = send_children(
            IF bcastChildren = {} THEN {}
            ELSE {CHOOSE c \in bcastChildren : \A d \in bcastChildren : c <= d},
            childInbox, Head(bcastQ))
    /\ BcastTaken("Message", NoId)
    /\ UNCHANGED <<bcastOpen, bcastChildren, recverQ, recverOpen, supervisors,
                   dead, supState, launches, started, sent, stopCalled,
                   reported, faultsSeen>>
    /\ UNCHANGED <<deadAgain, libVars>>

\* BastionMessage::Message(_)
BcastMessage ==
    /\ BcastHead("Message")
    /\ childInbox' = send_children(bcastChildren, childInbox, Head(bcastQ))
    /\ BcastTaken("Message", NoId)
    /\ UNCHANGED <<bcastOpen, bcastChildren, recverQ, recverOpen, supervisors,
                   dead, supState, launches, started, sent, stopCalled,
                   reported, faultsSeen>>
    /\ UNCHANGED <<deadAgain, libVars>>

\* Poll::Ready(None) => unimplemented!()
BcastClosed ==
    /\ pc = "poll_bcast"
    /\ bcastQ = <<>> /\ ~bcastOpen
    /\ pc' = "panicked"
    /\ last' = Event("bcast", "Closed", NoId)
    /\ turn' = Append(turn, "bcast:closed")
    /\ UNCHANGED <<ready, bcastQ, bcastOpen, bcastChildren, recverQ, recverOpen,
                   supervisors, dead, supState, launches, started, childInbox,
                   sent, stopCalled, reported, faultsSeen>>
    /\ UNCHANGED <<deadAgain, libVars>>

\* Poll::Pending => ()
BcastPending ==
    /\ pc = "poll_bcast"
    /\ bcastQ = <<>> /\ bcastOpen
    /\ pc' = "poll_recver"
    /\ turn' = Append(turn, "bcast:pending")
    /\ UNCHANGED <<ready, bcastQ, bcastOpen, bcastChildren, recverQ, recverOpen,
                   supervisors, dead, supState, launches, started, childInbox,
                   sent, stopCalled, last, reported, faultsSeen>>
    /\ UNCHANGED <<deadAgain, libVars>>

\* RecverSupervisor without `ready = true`
RecverSupervisor_NotReady ==
    /\ pc = "poll_recver"
    /\ recverQ # <<>>
    /\ recverQ' = Tail(recverQ)
    /\ launch_supervisor(Head(recverQ))
    /\ pc' = "end_turn"
    /\ last' = Event("recver", "Supervisor", Head(recverQ))
    /\ turn' = Append(turn, "recver:ready")
    /\ UNCHANGED <<bcastQ, bcastOpen, bcastChildren, recverOpen, supervisors,
                   dead, childInbox, sent, stopCalled, reported, faultsSeen,
                   ready>>
    /\ UNCHANGED <<deadAgain, libVars>>

\* poll!(self.recver.next()): Poll::Ready(Some(supervisor))
RecverSupervisor ==
    /\ pc = "poll_recver"
    /\ recverQ # <<>>
    /\ recverQ' = Tail(recverQ)
    /\ ready' = TRUE
    /\ launch_supervisor(Head(recverQ))
    /\ pc' = "end_turn"
    /\ last' = Event("recver", "Supervisor", Head(recverQ))
    /\ turn' = Append(turn, "recver:ready")
    /\ UNCHANGED <<bcastQ, bcastOpen, bcastChildren, recverOpen, supervisors,
                   dead, childInbox, sent, stopCalled, reported, faultsSeen>>
    /\ UNCHANGED <<deadAgain, libVars>>

\* Poll::Ready(None) => unimplemented!()
RecverClosed ==
    /\ pc = "poll_recver"
    /\ recverQ = <<>> /\ ~recverOpen
    /\ pc' = "panicked"
    /\ last' = Event("recver", "Closed", NoId)
    /\ turn' = Append(turn, "recver:closed")
    /\ UNCHANGED <<ready, bcastQ, bcastOpen, bcastChildren, recverQ, recverOpen,
                   supervisors, dead, supState, launches, started, childInbox,
                   sent, stopCalled, reported, faultsSeen>>
    /\ UNCHANGED <<deadAgain, libVars>>

\* Poll::Pending => ()
RecverPending ==
    /\ pc = "poll_recver"
    /\ recverQ = <<>> /\ recverOpen
    /\ pc' = "end_turn"
    /\ turn' = Append(turn, "recver:pending")
    /\ UNCHANGED <<ready, bcastQ, bcastOpen, bcastChildren, recverQ, recverOpen,
                   supervisors, dead, supState, launches, started, childInbox,
                   sent, stopCalled, last, reported, faultsSeen>>
    /\ UNCHANGED <<deadAgain, libVars>>

\* if !ready { pending!(); } and back to the top of the loop
EndTurn ==
    /\ pc = "end_turn"
    /\ IF ready
       THEN /\ pc' = "poll_bcast"
            /\ ready' = FALSE
            /\ turn' = <<>>
       ELSE /\ pc' = "yielded"
            /\ UNCHANGED <<ready, turn>>
    /\ UNCHANGED <<bcastQ, bcastOpen, bcastChildren, recverQ, recverOpen,
                   supervisors, dead, supState, launches, started, childInbox,
                   sent, stopCalled, last, reported, faultsSeen>>
    /\ UNCHANGED <<deadAgain, libVars>>

\* The task is polled again after pending!(): the wakers the two polls left
\* in the channels fire when a message arrives or a channel is closed.
Wake ==
    /\ pc = "yielded"
    /\ bcastQ # <<>> \/ recverQ # <<>> \/ ~bcastOpen \/ ~recverOpen
    /\ pc' = "poll_bcast"
    /\ ready' = FALSE
    /\ turn' = <<>>
    /\ UNCHANGED <<bcastQ, bcastOpen, bcastChildren, recverQ, recverOpen,
                   supervisors, dead, supState, launches, started, childInbox,
                   sent, stopCalled, last, reported, faultsSeen>>
    /\ UNCHANGED <<deadAgain, libVars>>

RootStep ==
    \/ BcastPoisonPill
    \/ BcastDead
    \/ BcastFaulted
    \/ BcastMessage
    \/ BcastClosed
    \/ BcastPending
    \/ RecverSupervisor
    \/ RecverClosed
    \/ RecverPending
    \/ EndTurn
    \/ Wake

Next ==
    \/ \E s \in SupIds : Submit(s)
    \/ \E s \in SupIds : \E kind \in {"Dead", "Faulted"} : SupReport(s, kind)
    \/ \E msg \in Reports \cup {Message} : SendBcast(msg)
    \/ Stop
    \/ CloseIntake
    \/ CloseBcast
    \/ RootStep

Spec == Init /\ [][Next]_vars

\* The executor polls the root task whenever it can take a step.
FairSpec == Spec /\ WF_vars(RootStep)


\* ----------------------------------------------- building and printing paths
\* what every builder step leaves alone
PathFrame == UNCHANGED <<pc, ready, bcastQ, bcastOpen, bcastChildren, recverQ,
                         recverOpen, supervisors, dead, supState, launches,
                         started, childInbox, sent, stopCalled, last, turn,
                         reported, faultsSeen, deadAgain, askVars, rrVars>>

\* slot k holds path p, and its string is taken
PathSet(k, p) ==
    /\ paths' = [paths EXCEPT ![k] = p]
    /\ strs' = [strs EXCEPT ![k] = to_string(p)]

\* ActorPath::default()
PathDefault(k, unique_id) ==
    /\ PathSet(k, ActorPathDefault(unique_id))
    /\ PathFrame

\* .node_name(n)
PathNodeName(k, n) ==
    /\ PathSet(k, node_name(paths[k], n))
    /\ PathFrame

\* .node_type(t)
PathNodeType(k, t) ==
    /\ PathSet(k, node_type(paths[k], t))
    /\ PathFrame

\* .scope(sc)
PathScope(k, sc) ==
    /\ PathSet(k, scope(paths[k], sc))
    /\ PathFrame

\* .name(id)
PathName(k, id) ==
    /\ PathSet(k, name(paths[k], id))
    /\ PathFrame

PathNext ==
    \/ \E k \in Slots : \E u \in Uuids : PathDefault(k, u)
    \/ \E k \in Slots : \E n \in NodeNames : PathNodeName(k, n)
    \/ \E k \in Slots : \E t \in ActorNodeTypes : PathNodeType(k, t)
    \/ \E k \in Slots : \E sc \in ActorScopes : PathScope(k, sc)
    \/ \E k \in Slots : \E id \in ActorIds : PathName(k, id)

PathSpec == Init /\ [][PathNext]_vars

\* ------------------------------------------------- the dispatcher example
\* what the example's steps leave alone
RoundFrame == UNCHANGED <<pc, ready, bcastQ, bcastOpen, bcastChildren, recverQ,
                          recverOpen, supervisors, dead, supState, launches,
                          started, childInbox, sent, stopCalled, last, turn,
                          reported, faultsSeen, deadAgain, pathVars, askVars>>

\* rounder_group is launched: its five members are registered under the
\* name of its dispatcher
LaunchRounder ==
    /\ RounderName \notin DOMAIN registry
    /\ ~stopped
    /\ registry' = [n \in {RounderName} |->
                       Dispatcher(RounderType, [k \in Members |-> k])]
    /\ UNCHANGED <<callerNext, callerPc, delivered, printed, stopped>>
    /\ RoundFrame

\* caller_group is launched: its one child starts its exec future
LaunchCaller ==
    /\ callerPc = "created"
    /\ callerPc' = "sending"
    /\ UNCHANGED <<registry, callerNext, delivered, printed, stopped>>
    /\ RoundFrame

\* ctx.broadcast_message(target.clone(), data), for the group once it is
\* registered
CallerBroadcast ==
    /\ callerPc = "sending"
    /\ callerNext <= Len(DataToSend)
    /\ RounderName \in DOMAIN registry
    /\ LET d == registry[RounderName]
           to == DispatchTargets(d)
       IN  /\ delivered' = [m \in Members |->
                               IF m \in to
                               THEN Append(delivered[m], DataToSend[callerNext])
                               ELSE delivered[m]]
           /\ registry' = [registry EXCEPT ![RounderName] = Dispatched(d)]
    /\ callerNext' = callerNext + 1
    /\ UNCHANGED <<callerPc, printed, stopped>>
    /\ RoundFrame

\* Bastion::stop(); Ok(())
CallerStop ==
    /\ callerPc = "sending"
    /\ callerNext > Len(DataToSend)
    /\ stopped' = TRUE
    /\ callerPc' = "done"
    /\ UNCHANGED <<registry, callerNext, delivered, printed>>
    /\ RoundFrame

\* a member's loop: ctx.recv().await?, then println!("Received {}", data)
MemberRecv(m) ==
    /\ RounderName \in DOMAIN registry
    /\ ~stopped
    /\ Len(printed[m]) < Len(delivered[m])
    /\ printed' = [printed EXCEPT ![m] =
                      Append(@, delivered[m][Len(printed[m]) + 1])]
    /\ UNCHANGED <<registry, callerNext, callerPc, delivered, stopped>>
    /\ RoundFrame

RoundNext ==
    \/ LaunchRounder
    \/ LaunchCaller
    \/ CallerBroadcast
    \/ CallerStop
    \/ \E m \in Members : MemberRecv(m)

RoundSpec == Init /\ [][RoundNext]_vars

\* ------------------------------------------------- the hello-world example
\* what the example's steps leave alone
AskFrame == UNCHANGED <<pc, ready, bcastQ, bcastOpen, bcastChildren, recverQ,
                        recverOpen, supervisors, dead, supState, launches,
                        started, childInbox, sent, stopCalled, last, turn,
                        reported, faultsSeen, deadAgain, pathVars, rrVars>>

\* Bastion::children(|children| children.with_context().with_exec(recipe))
SpawnWorkers(kind) ==
    /\ workerPc = "none"
    /\ workerKind' = kind
    /\ workerPc' = "recv"
    /\ UNCHANGED <<workerMail, workerCur, canProcess, toProcess, processed,
                   chan, fired, askerPc, handled>>
    /\ AskFrame

\* workers.elems()[0].ask_anonymously(body): a one-shot channel is created,
\* its sending side travels in the envelope, the asker keeps the other
AskAnonymously(a, body) ==
    /\ askerPc[a] = "start"
    /\ workerPc # "none"
    /\ chan' = [chan EXCEPT ![a] = "open"]
    /\ workerMail' = Append(workerMail, Envelope(body, a))
    /\ askerPc' = [askerPc EXCEPT ![a] = "awaiting"]
    /\ UNCHANGED <<workerKind, workerPc, workerCur, canProcess, toProcess,
                   processed, fired, handled>>
    /\ AskFrame

\* answer.await.expect("couldn't receive answer")
AskerAwait(a) ==
    /\ askerPc[a] = "awaiting"
    /\ chan[a] \in {"sent", "canceled"}
    /\ askerPc' = [askerPc EXCEPT ![a] =
                      IF chan[a] = "sent" THEN "answered" ELSE "canceled"]
    /\ UNCHANGED <<workerKind, workerPc, workerMail, workerCur, canProcess,
                   toProcess, processed, chan, fired, handled>>
    /\ AskFrame

\* ctx.recv().await?
WorkerRecv ==
    /\ workerPc = "recv"
    /\ workerMail # <<>>
    /\ workerCur' = Head(workerMail)
    /\ workerMail' = Tail(workerMail)
    /\ workerPc' = "handling"
    /\ UNCHANGED <<workerKind, canProcess, toProcess, processed, chan, fired,
                   askerPc, handled>>
    /\ AskFrame

\* WorkerHandle whose reply handle outlives the message
WorkerHandle_KeepsHandle ==
    /\ workerPc = "handling"
    /\ workerKind = "loltest"
    /\ LET msg == workerCur.body
           signal == msg = msgSignal
           can == canProcess \/ signal
           drained == IF signal THEN processed \o toProcess ELSE processed
           queue == IF signal THEN <<>> ELSE toProcess
       IN  /\ canProcess' = can
           /\ processed' = IF can THEN Append(drained, msg) ELSE drained
           /\ toProcess' = IF can THEN queue ELSE Append(queue, msg)
    /\ handled' = handled \cup {workerCur.reply}
    /\ workerCur' = NoEnvelope
    /\ workerPc' = "done"
    /\ UNCHANGED <<workerKind, workerMail, chan, fired, askerPc>>
    /\ AskFrame

\* the `msg: &'static str =!> { ... }` arm of the example and the Ok(())
\* after it: nothing is sent on the reply handle, which is dropped with the
\* message at the end of msg!
WorkerHandle ==
    /\ workerPc = "handling"
    /\ workerKind = "loltest"
    /\ LET msg == workerCur.body
           signal == msg = msgSignal
           can == canProcess \/ signal
           drained == IF signal THEN processed \o toProcess ELSE processed
           queue == IF signal THEN <<>> ELSE toProcess
       IN  /\ canProcess' = can
           /\ processed' = IF can THEN Append(drained, msg) ELSE drained
           /\ toProcess' = IF can THEN queue ELSE Append(queue, msg)
    /\ chan' = DropHandle(chan, workerCur.reply)
    /\ handled' = handled \cup {workerCur.reply}
    /\ workerCur' = NoEnvelope
    /\ workerPc' = "done"
    /\ UNCHANGED <<workerKind, workerMail, fired, askerPc>>
    /\ AskFrame

\* a child that answers each message with the payload it received, one
\* message after the other
EchoHandle ==
    /\ workerPc = "handling"
    /\ workerKind = "echo"
    /\ fired' = [fired EXCEPT ![workerCur.reply] =
                    IF chan[workerCur.reply] = "open" THEN @ + 1 ELSE @]
    /\ chan' = DropHandle(SendReply(chan, workerCur.reply), workerCur.reply)
    /\ handled' = handled \cup {workerCur.reply}
    /\ workerCur' = NoEnvelope
    /\ workerPc' = "recv"
    /\ UNCHANGED <<workerKind, workerMail, canProcess, toProcess, processed,
                   askerPc>>
    /\ AskFrame

WorkerStep == WorkerRecv \/ WorkerHandle \/ EchoHandle

AskNext ==
    \/ \E kind \in WorkerKinds : SpawnWorkers(kind)
    \/ \E a \in AskIds : \E body \in AskBodies : AskAnonymously(a, body)
    \/ \E a \in AskIds : AskerAwait(a)
    \/ WorkerRecv
    \/ WorkerHandle
    \/ EchoHandle

AskSpec == Init /\ [][AskNext]_vars

\* The executor runs the worker's task, and run!(asker) drives the asker.
AskFairSpec ==
    AskSpec /\ WF_vars(WorkerStep) /\ \A a \in AskIds : WF_vars(AskerAwait(a))

TypeOK ==
    /\ pc \in {"poll_bcast", "poll_recver", "end_turn", "yielded", "panicked",
               "returned"}
    /\ ready \in BOOLEAN
    /\ dead \subseteq SupIds
    /\ DOMAIN supervisors \subseteq SupIds
    /\ bcastChildren \subseteq SupIds
    /\ sent \in 0..MaxSends

\* --------------------------------------------------------------- lifecycle
\* System: Initialized -> Running -> Stopping -> Stopped.  A panic of the
\* task (unimplemented!()) is none of them.
SystemState ==
    CASE pc = "returned" -> "Stopped"
      [] pc = "stopping" -> "Stopping"
      [] pc = "panicked" -> "Aborted"
      [] OTHER -> "Running"

\* the root loop takes message t about id i from its broadcast queue
RootTakes(t, i) ==
    /\ BcastHead(t)
    /\ Head(bcastQ).id = i
    /\ pc' # "poll_bcast"

Keys(m) == DOMAIN m

\* ------------------------------------------------------------------ claims

\* C1: every supervisor the root has launched and for which no Dead or
\* Faulted has been handled is a key of the root's supervisor map.
C1_LaunchedIsRegistered ==
    \A s \in SupIds :
        (launches[s] > 0 /\ s \notin reported) => s \in Keys(supervisors)

\* C2: when the root handles Faulted{id} for a supervisor it launched, that
\* is not dead and whose task has terminated, the supervisor is relaunched:
\* a running incarnation of it exists again when the arm is done.
C2_FaultedIsRelaunched ==
    [][\A s \in SupIds :
        (RootTakes("Faulted", s) /\ launches[s] > 0 /\ s \notin dead
            /\ supState[s] = "terminated")
        => (supState'[s] = "running" /\ launches'[s] = launches[s] + 1)]_vars

\* C3: handling Dead{id} leaves id out of the supervisor map, detaches the
\* broadcast child edge of id and puts id in the dead-set; no other
\* supervisor's map entry or broadcast edge changes.
C3_DeadHandled ==
    [][\A i \in SupIds :
        RootTakes("Dead", i) =>
            /\ i \notin Keys(supervisors')
            /\ i \notin bcastChildren'
            /\ i \in dead'
            /\ \A j \in SupIds \ {i} :
                /\ (j \in Keys(supervisors')) = (j \in Keys(supervisors))
                /\ j \in Keys(supervisors) => supervisors'[j] = supervisors[j]
                /\ (j \in bcastChildren') = (j \in bcastChildren)]_vars

\* C3 witness: Dead{i} of a submitted supervisor was just handled: its edge
\* is gone, it is in the dead-set, and another supervisor's edge is in place.
C3_Witness ==
    \E i \in SupIds : \E j \in SupIds \ {i} :
        /\ last = Event("bcast", "Dead", i)
        /\ pc = "poll_recver"
        /\ supState[i] # "created"
        /\ i \in dead /\ i \notin bcastChildren
        /\ j \in bcastChildren

\* C4: on PoisonPill the root starts an orderly shutdown: Stop goes to every
\* registered child and the loop does not fail.
C4_PoisonPillOrderly ==
    [][RootTakes("PoisonPill", NoId) =>
        /\ SystemState' \in {"Stopping", "Stopped"}
        /\ \A c \in bcastChildren :
               childInbox'[c] = Append(childInbox[c], StopMsg)]_vars

\* C5: once stop() has been called the system reaches Stopped (and a caller
\* of block_until_stopped() returns).
C5_StopTerminates == stopCalled ~> (SystemState = "Stopped")

\* C6: a faulting supervisor is relaunched for each of its first MaxRestarts
\* faults; the next fault is not relaunched and takes the System to Stopping.
C6_RestartBudget ==
    \A s \in SupIds :
        launches[s] > 0 =>
            /\ faultsSeen[s] <= MaxRestarts => launches[s] = 1 + faultsSeen[s]
            /\ faultsSeen[s] > MaxRestarts =>
                  /\ launches[s] = 1 + MaxRestarts
                  /\ SystemState \in {"Stopping", "Stopped"}

\* C7: handling a Message appends one copy of it to the inbox of every child
\* registered at that moment, to no other inbox, and leaves the supervisor
\* map and the dead-set as they were.
C7_MessageFanOut ==
    [][RootTakes("Message", NoId) =>
        /\ \A c \in SupIds :
              childInbox'[c] = IF c \in bcastChildren
                               THEN Append(childInbox[c], Message)
                               ELSE childInbox[c]
        /\ supervisors' = supervisors
        /\ dead' = dead
        /\ bcastChildren' = bcastChildren]_vars

\* C7 witness: a Message was just handled with two children registered, and
\* both hold it.
C7_Witness ==
    /\ last = Event("bcast", "Message", NoId)
    /\ pc = "poll_recver"
    /\ Cardinality(bcastChildren) >= 2
    /\ \A c \in bcastChildren : childInbox[c] # <<>>

\* C8: the dead-set and the keys of the supervisor map are disjoint, and
\* handling Faulted{id} for an id of the dead-set launches nothing.
C8_DeadStaysDead ==
    /\ [](dead \cap Keys(supervisors) = {})
    /\ [][\A i \in SupIds :
            (RootTakes("Faulted", i) /\ i \in dead) =>
                /\ launches' = launches
                /\ supState' = supState
                /\ i \notin Keys(supervisors')]_vars

\* C8 witness: a supervisor was launched, its Dead was handled, and then a
\* Faulted for the same id was handled.
C8_Witness ==
    \E i \in SupIds :
        /\ last = Event("bcast", "Faulted", i)
        /\ i \in dead
        /\ launches[i] > 0

\* C9: when a poll finds its channel closed the loop exits in order.
C9_ClosedChannelExits ==
    last.type = "Closed" => SystemState = "Stopped"

\* C10: a turn polls the broadcast queue, then the intake channel, takes at
\* most one event from each, and the loop yields at the end of the turn
\* exactly when neither poll was ready.
TurnShape ==
    /\ Len(turn) <= 2
    /\ Len(turn) >= 1 =>
          turn[1] \in {"bcast:ready", "bcast:pending", "bcast:closed"}
    /\ Len(turn) = 2 =>
          /\ turn[1] \in {"bcast:ready", "bcast:pending"}
          /\ turn[2] \in {"recver:ready", "recver:pending", "recver:closed"}
    /\ pc = "poll_bcast" => turn = <<>>
    /\ pc = "poll_recver" => Len(turn) = 1
    /\ pc \in {"end_turn", "yielded"} => Len(turn) = 2
    /\ pc = "yielded" => turn = <<"bcast:pending", "recver:pending">>

C10_TurnOrderAndYield ==
    /\ []TurnShape
    /\ [][/\ Len(bcastQ) <= Len(bcastQ') + 1
          /\ Len(recverQ) <= Len(recverQ') + 1
          /\ (Len(bcastQ') < Len(bcastQ)) => (pc = "poll_bcast" /\ pc' # pc)
          /\ (Len(recverQ') < Len(recverQ)) => (pc = "poll_recver" /\ pc' # pc)
          /\ (pc = "end_turn" /\ pc' # pc) =>
                ((pc' = "yielded") = (turn = <<"bcast:pending", "recver:pending">>))
          /\ (pc' = "yielded" /\ pc # "yielded") => pc = "end_turn"]_vars

\* C10 witness: the loop has yielded after a turn in which neither poll was
\* ready, having handled events in earlier turns without yielding.
C10_Witness ==
    /\ pc = "yielded"
    /\ turn = <<"bcast:pending", "recver:pending">>
    /\ last.src = "recver"
    /\ reported # {}

\* C11: to_string is "bastion://" node_name ["@" addr] "/" tag "/" id, the
\* "@" addr segment there exactly for Remote, the tag user, system,
\* dead_letter or temporary.  Stated segment by segment on the string, and
\* on the strings the tests of path.rs expect.
ScopeTag ==
    [User |-> <<"u", "s", "e", "r">>,
     System |-> <<"s", "y", "s", "t", "e", "m">>,
     DeadLetter |-> <<"d", "e", "a", "d", "_", "l", "e", "t", "t", "e", "r">>,
     Temporary |-> <<"t", "e", "m", "p", "o", "r", "a", "r", "y">>]

Segment(s, from, len) == SubSeq(s, from, from + len - 1)

CanonicalForm(p, s) ==
    LET n == Len(p.node_name)
        isRemote == p.node_type.kind = "Remote"
        a == IF isRemote THEN SocketAddrToString(p.node_type.addr) ELSE <<>>
        at == IF isRemote THEN 1 + Len(a) ELSE 0
        tag == ScopeTag[p.scope]
        g == Len(tag)
    IN  /\ Len(s) = 10 + n + at + 1 + g + 1 + Len(p.id)
        /\ Segment(s, 1, 10) = chScheme
        /\ Segment(s, 11, n) = p.node_name
        /\ isRemote <=> s[11 + n] = "@"
        /\ isRemote => Segment(s, 12 + n, Len(a)) = a
        /\ s[11 + n + at] = "/"
        /\ Segment(s, 12 + n + at, g) = tag
        /\ s[12 + n + at + g] = "/"
        /\ Segment(s, 13 + n + at + g, Len(p.id)) = p.id

TestVectors ==
    {<<ActorPathNew(chTest, Local, "User", chProcessing1),
       <<"b", "a", "s", "t", "i", "o", "n", ":", "/", "/", "t", "e", "s", "t", "/", "u", "s", "e", "r", "/", "p", "r", "o", "c", "e", "s", "s", "i", "n", "g", "/", "1">>>>,
     <<ActorPathNew(chTest, Local, "DeadLetter", chProcessing1),
       <<"b", "a", "s", "t", "i", "o", "n", ":", "/", "/", "t", "e", "s", "t", "/", "d", "e", "a", "d", "_", "l", "e", "t", "t", "e", "r", "/", "p", "r", "o", "c", "e", "s", "s", "i", "n", "g", "/", "1">>>>,
     <<ActorPathNew(chTest, Remote(Loopback8080), "Temporary", chProcessing1),
       <<"b", "a", "s", "t", "i", "o", "n", ":", "/", "/", "t", "e", "s", "t", "@", "1", "2", "7", ".", "0", ".", "0", ".", "1", ":", "8", "0", "8", "0", "/", "t", "e", "m", "p", "o", "r", "a", "r", "y", "/", "p", "r", "o", "c", "e", "s", "s", "i", "n", "g", "/", "1">>>>,
     <<ActorPathNew(chNode, Remote(Loopback8080), "System", chOne),
       <<"b", "a", "s", "t", "i", "o", "n", ":", "/", "/", "n", "o", "d", "e", "@", "1", "2", "7", ".", "0", ".", "0", ".", "1", ":", "8", "0", "8", "0", "/", "s", "y", "s", "t", "e", "m", "/", "1">>>>}

C11_ToStringFormat ==
    \A k \in Slots :
        /\ CanonicalForm(paths[k], strs[k])
        /\ \A v \in TestVectors : paths[k] = v[1] => strs[k] = v[2]

\* C11 witness: the path of construct_remote_user_path_group has been built
\* and printed.
C11_Witness ==
    /\ paths["a"] = ActorPathNew(chTest, Remote(Loopback8080), "Temporary",
                                 chProcessing1)
    /\ strs["a"] =
        <<"b", "a", "s", "t", "i", "o", "n", ":", "/", "/", "t", "e", "s", "t", "@", "1", "2", "7", ".", "0", ".", "0", ".", "1", ":", "8", "0", "8", "0", "/", "t", "e", "m", "p", "o", "r", "a", "r", "y", "/", "p", "r", "o", "c", "e", "s", "s", "i", "n", "g", "/", "1">>

\* C12: the default path is ("node", Local, System, fresh id); each builder
\* replacement sets its own field and keeps the other three; replacements
\* of different fields commute; a repeated replacement is last-wins.
BuilderFrame(p) ==
    /\ \A n \in NodeNames :
        LET q == node_name(p, n)
        IN  /\ q.node_name = n /\ q.node_type = p.node_type
            /\ q.scope = p.scope /\ q.id = p.id
    /\ \A t \in ActorNodeTypes :
        LET q == node_type(p, t)
        IN  /\ q.node_name = p.node_name /\ q.node_type = t
            /\ q.scope = p.scope /\ q.id = p.id
    /\ \A sc \in ActorScopes :
        LET q == scope(p, sc)
        IN  /\ q.node_name = p.node_name /\ q.node_type = p.node_type
            /\ q.scope = sc /\ q.id = p.id
    /\ \A id \in ActorIds :
        LET q == name(p, id)
        IN  /\ q.node_name = p.node_name /\ q.node_type = p.node_type
            /\ q.scope = p.scope /\ q.id = id

BuilderCommutes(p) ==
    \A n \in NodeNames : \A t \in ActorNodeTypes :
    \A sc \in ActorScopes : \A id \in ActorIds :
        /\ node_type(node_name(p, n), t) = node_name(node_type(p, t), n)
        /\ scope(node_name(p, n), sc) = node_name(scope(p, sc), n)
        /\ name(node_name(p, n), id) = node_name(name(p, id), n)
        /\ scope(node_type(p, t), sc) = node_type(scope(p, sc), t)
        /\ name(node_type(p, t), id) = node_type(name(p, id), t)
        /\ name(scope(p, sc), id) = scope(name(p, id), sc)

BuilderLastWins(p) ==
    /\ \A n1 \in NodeNames : \A n2 \in NodeNames :
        node_name(node_name(p, n1), n2).node_name = n2
    /\ \A t1 \in ActorNodeTypes : \A t2 \in ActorNodeTypes :
        node_type(node_type(p, t1), t2).node_type = t2
    /\ \A s1 \in ActorScopes : \A s2 \in ActorScopes :
        scope(scope(p, s1), s2).scope = s2
    /\ \A i1 \in ActorIds : \A i2 \in ActorIds :
        name(name(p, i1), i2).id = i2

C12_BuilderFrame ==
    /\ \A u \in Uuids :
        LET d == ActorPathDefault(u)
        IN  /\ d.node_name = chNode /\ d.node_type = Local
            /\ d.scope = "System" /\ d.id = u
    /\ \A k \in Slots :
        /\ BuilderFrame(paths[k])
        /\ BuilderCommutes(paths[k])
        /\ BuilderLastWins(paths[k])

\* C12 witness: slot a was built from the default by all four replacements
\* while slot b still holds a default path.
C12_Witness ==
    /\ paths["a"] = ActorPathNew(chTest, Remote(Loopback8080), "User", chOne)
    /\ paths["b"].node_name = chNode /\ paths["b"].node_type = Local
    /\ paths["b"].scope = "System" /\ paths["b"].id \in Uuids

\* C20 as claimed: two paths that differ as tuples print differently.
C20_ToStringInjective ==
    paths["a"] # paths["b"] => strs["a"] # strs["b"]

\* node_name holds neither '/' nor '@'
PlainNodeName(p) ==
    \A i \in 1..Len(p.node_name) : p.node_name[i] \notin {"/", "@"}

\* C20 as amended: two paths that differ as tuples and whose node names hold
\* neither '/' nor '@' print differently, whatever their ids hold.
C20_InjectiveOnPlainNames ==
    (paths["a"] # paths["b"] /\ PlainNodeName(paths["a"])
        /\ PlainNodeName(paths["b"]))
    => strs["a"] # strs["b"]

\* C20 witness: two different paths with plain node names, one Local and one
\* Remote, with '/' in an id, have been printed.
C20_Witness ==
    /\ paths["a"] = ActorPathNew(chTest, Local, "User", chAUser1)
    /\ paths["b"] = ActorPathNew(chTest, Remote(Loopback8080), "User", chOne)
    /\ strs["a"] # strs["b"]

\* C15: handling Dead{id} again, with id already in the dead-set and its
\* edge already gone, changes neither the supervisor map, nor the child set,
\* nor the dead-set, and the loop goes on.
C15_DeadIdempotent ==
    [][\A i \in SupIds :
        (RootTakes("Dead", i) /\ i \in dead /\ i \notin bcastChildren) =>
            /\ supervisors' = supervisors
            /\ bcastChildren' = bcastChildren
            /\ dead' = dead
            /\ pc' = "poll_recver"]_vars

\* C15 witness: a supervisor was launched and left, and a second Dead for it
\* has just been handled.
C15_Witness ==
    \E i \in SupIds :
        /\ last = Event("bcast", "Dead", i)
        /\ pc = "poll_recver"
        /\ i \in deadAgain
        /\ supState[i] = "terminated"

\* C16: every launch starts the supervisor's children and then spawns its
\* task; a supervisor's task runs only after such a launch.
C16_ChildrenBeforeTask ==
    \A s \in SupIds :
        /\ Len(started[s]) = 2 * launches[s]
        /\ \A k \in 1..launches[s] :
            /\ started[s][2 * k - 1] = "launch_children"
            /\ started[s][2 * k] = "spawn"
        /\ supState[s] \in {"running", "terminated"} => launches[s] >= 1

\* C16 witness: a supervisor taken from intake is running.
C16_Witness ==
    \E s \in SupIds :
        /\ supState[s] = "running"
        /\ started[s] = <<"launch_children", "spawn">>
        /\ last = Event("recver", "Supervisor", s)

\* C17: whatever the broadcast poll of a turn returned (short of PoisonPill
\* and of a closed channel), the turn goes on to poll intake, and an intake
\* poll that finds a Supervisor launches it in that step.
C17_IntakeNotStarved ==
    [][/\ (/\ pc = "poll_bcast" /\ pc' # pc
           /\ ~(bcastQ # <<>> /\ Head(bcastQ).type = "PoisonPill")
           /\ ~(bcastQ = <<>> /\ ~bcastOpen))
          => pc' = "poll_recver"
       /\ (pc = "poll_recver" /\ pc' # pc /\ recverQ # <<>>) =>
            /\ recverQ' = Tail(recverQ)
            /\ supState'[Head(recverQ)] = "running"
            /\ launches'[Head(recverQ)] = launches[Head(recverQ)] + 1]_vars

\* C17 witness: a supervisor was launched in a turn whose broadcast poll had
\* handled a message, with more messages waiting in the broadcast queue.
C17_Witness ==
    \E s \in SupIds :
        /\ last = Event("recver", "Supervisor", s)
        /\ turn = <<"bcast:ready", "recver:ready">>
        /\ supState[s] = "running"
        /\ bcastQ # <<>>
        /\ Head(bcastQ).type \in {"Dead", "Message"}

\* C19: handling Faulted{id} with id not a key of the supervisor map changes
\* neither the map, nor the dead-set, nor the child set, and launches
\* nothing.
C19_FaultedUnknownIsNoOp ==
    [][\A i \in SupIds :
        (RootTakes("Faulted", i) /\ i \notin Keys(supervisors)) =>
            /\ supervisors' = supervisors
            /\ dead' = dead
            /\ bcastChildren' = bcastChildren
            /\ launches' = launches
            /\ supState' = supState
            /\ started' = started]_vars

\* C19 witness: Faulted of a launched supervisor, whose id is no key of the
\* map, has just been handled: the supervisor is still terminated and not in
\* the dead-set.
C19_Witness ==
    \E i \in SupIds :
        /\ last = Event("bcast", "Faulted", i)
        /\ pc = "poll_recver"
        /\ i \notin Keys(supervisors)
        /\ i \notin dead
        /\ supState[i] = "terminated"
        /\ launches[i] = 1

\* what the asker of ask a can see of its reply channel
AskOutcomes ==
    \A a \in AskIds :
        /\ fired[a] <= 1
        /\ askerPc[a] = "answered" => fired[a] = 1 /\ chan[a] = "sent"
        /\ askerPc[a] = "canceled" => fired[a] = 0 /\ chan[a] = "canceled"
        /\ chan[a] = "canceled" => fired[a] = 0
        /\ (a \in handled /\ workerKind = "loltest") => chan[a] = "canceled"

Broadcast == {DataToSend[k] : k \in 1..(callerNext - 1)}

\* the members payload d was delivered to
Receivers(d) ==
    {m \in Members : \E k \in 1..Len(delivered[m]) : delivered[m][k] = d}

\* C14: every payload broadcast to Group("Rounder") is delivered to exactly
\* one of the five members, and once data_1..data_5 have all been broadcast
\* every member has been delivered exactly one payload.
C14_OnePayloadPerMember ==
    /\ \A d \in Broadcast : Cardinality(Receivers(d)) = 1
    /\ callerNext > Len(DataToSend) =>
        \A m \in Members : Len(delivered[m]) = 1

====
